---------------------------- MODULE Spec2Model ----------------------------
(***************************************************************************)
(* State-machine model of the physics_gnn repository.                      *)
(*                                                                         *)
(* The repository has independent components; each gets its own            *)
(* specification over the shared variable list (the variables of the       *)
(* other components stay at their initial value):                          *)
(*   SpecKernel  - Adj_Kernel family: save_adj / forward / update          *)
(*                 (src/script/model/kernels/general.py)                   *)
(*   SpecGNN     - one call of GNN.forward (src/script/model/gnn/gnn.py)   *)
(*   SpecStats   - Statistics: update / flush (src/Atlas_nyu/statistics.py)*)
(*   SpecConv    - get_convolution_layer, ResGOpConv, GraphOpConv          *)
(*                 (src/script/model/gnn/graphconv.py and                  *)
(*                  src/script/model/graphconv.py)                         *)
(*   SpecMain    - main() of src/main_atlas.py                             *)
(*   SpecSoftmax - _softmax of src/script/model/kernels/general.py         *)
(*   SpecGauss   - Gaussian.forward and GaussianSoftmax.forward            *)
(*   SpecDirected - DirectedGaussian.forward                               *)
(*   SpecMLP     - MLPdirected.forward                                     *)
(***************************************************************************)
EXTENDS Integers, Sequences, FiniteSets, TLC

VARIABLES
  \* ---- adjacency kernel object (kernels/general.py)
  k_kind,         \* class of the kernel object
  k_layerwise,    \* the layerwise flag Adj_Kernel.__init__ received
  adj_matrix,     \* self.adj_matrix (NoAdj while the attribute does not exist)
  gauss_ker_adj,  \* self.gauss_ker.adj_matrix of a DirectedGaussian
  k_op,           \* last call made on the kernel
  k_args,         \* its arguments <<adj_in, emb_in>>
  k_ret,          \* what it returned (or the exception it raised)
  k_ranForward,   \* whether the call executed the body of forward
  k_lastSaveArg,  \* argument of the most recent self.save_adj(...) call
  \* ---- one call of GNN.forward (gnn/gnn.py)
  g_pc,           \* position in forward: "entry", "loop", "plot", "readout", "done"
  g_L,            \* len(self.layers)
  g_plotting,     \* whether the plotting argument is not None
  g_input,        \* the emb argument of the call
  g_emb,          \* local emb
  g_adj,          \* local adj
  g_i,            \* loop index i (number of layers completed)
  g_ran,          \* indices of the layers called so far, in call order
  g_layerIn,      \* (emb, adj) the most recent layer call received
  g_layerOut,     \* (emb, adj) the most recent layer call returned
  g_prevOut,      \* (emb, adj) the layer call before it returned
  g_plots,        \* number of plotting.plot_graph calls
  g_lastPlot,     \* arguments of the most recent plot_graph call
  g_readouts,     \* number of self.readout calls
  g_readoutArg,   \* embedding handed to the readout
  \* ---- Statistics object (Atlas_nyu/statistics.py)
  nbdisplay,          \* self.param.nbdisplay
  nbstep,             \* self.param.nbstep
  nb_batch_in_buffer, \* self.nb_batch_in_buffer[mode]
  buffer,             \* self.buffer[mode][stat]
  steploss,           \* self.steploss
  steps,              \* self.steps
  nb_events_seen,     \* self.nb_events_seen[mode]
  files,              \* content of <statdir>/<name>.csv: the values appended
  s_op,               \* last call made on the object: "init", "update", "flush"
  s_mode,             \* mode argument of the last update
  s_updates,          \* number of update calls made so far, per mode
  s_window,           \* the std0 and std1 that print_ shows when an update completes
                      \* a window, and whether the window had ones and zeros
  s_stepsum,          \* sum of loss_step over the train updates since the last
                      \* write to loss_step.csv
  \* ---- a convolution layer: construction, then ResGOpConv.forward
  c_impl,         \* "gnn": script/model/gnn/graphconv.py, "model": script/model/graphconv.py
  c_conv_type,    \* param.args.conv_type
  c_out_fm,       \* requested number of output feature maps
  c_nb_op,        \* number of graph operators
  c_pc,           \* position in the constructor / in forward
  c_layer,        \* class of the layer object returned ("none": nothing returned)
  c_exc,          \* exception raised ("none": no exception)
  c_subconvs,     \* number of GraphOpConv objects created
  c_lin,          \* parameters of self.gconv_lin
  c_nlin,         \* parameters of self.gconv_nlin
  c_ops,          \* forward argument ops (<<>> is None)
  c_emb_in,       \* forward argument emb_in
  c_nb_nodes,     \* forward argument batch_nb_nodes (valid nodes of the graph)
  c_linear,       \* local linear
  c_nlinear,      \* local nlinear
  c_checked,      \* the locals check_for_nan has accepted
  c_out,          \* local emb_out
  \* ---- one run of main() of main_atlas.py
  m_mode,         \* param.mode
  m_stdout,       \* whether param.stdout is not None
  m_epoch,        \* param.epoch
  m_pc,           \* position in main
  m_exc,          \* exception raised ("none": no exception)
  m_outfiles,     \* number of makefile_if_not_there calls
  m_models,       \* number of get_model calls
  m_epochs_done,  \* number of model.do_one_epoch calls
  m_plots,        \* number of plot_statistics calls
  \* ---- one call of _softmax(dij, _softmax_fct) (kernels/general.py)
  sm_dij,         \* the argument dij, shape (batch, nodes, nodes)
  sm_pc,          \* position in _softmax
  sm_flat,        \* dij after unbind / cat, shape (batch * nodes, nodes)
  sm_soft,        \* dij after _softmax_fct
  sm_out,         \* the returned tensor
  \* ---- one call of Gaussian.forward / GaussianSoftmax.forward
  ga_kind,        \* the class of the kernel
  ga_diag,        \* self.diag
  ga_layerwise,   \* the layerwise keyword of the constructor
  ga_var,         \* self.sigma ** 2, in units of ln 2
  ga_emb,         \* the argument emb, shape (batch, nodes), one feature map
  ga_pc,          \* position in forward
  ga_gauss,       \* the value gaussian(...) returned
  ga_adj,         \* local adj
  ga_saved,       \* self.adj_matrix
  \* ---- one call of DirectedGaussian.forward(adj_in, emb_in, idx)
  dg_adj_in,      \* the argument adj_in, shape (batch, nodes, nodes)
  dg_pc,          \* position in forward
  dg_i,           \* loop variable i (from 1)
  dg_sum,         \* local sum_weights
  dg_exc,         \* exception raised ("none": no exception)
  dg_out,         \* the returned adjacency
  \* ---- one call of MLPdirected.forward(adj_in, emb_in, layer)
  ml_layerwise,   \* the layerwise keyword of the constructor
  ml_adj_in,      \* the argument adj_in, shape (batch, nodes, nodes)
  ml_emb_in,      \* the argument emb_in, shape (batch, fmap, nodes)
  ml_pc,          \* position in forward
  ml_i,           \* loop variable i (from 1)
  ml_sample,      \* local sample of the current iteration
  ml_samples,     \* the sample matrices built so far, one per graph
  ml_adj_list,    \* local adj_list
  ml_out,         \* the returned adjacency
  ml_saved        \* self.adj_matrix

kernelVars == <<k_kind, k_layerwise, adj_matrix, gauss_ker_adj, k_op, k_args,
                k_ret, k_ranForward, k_lastSaveArg>>

gnnVars == <<g_pc, g_L, g_plotting, g_input, g_emb, g_adj, g_i, g_ran,
             g_layerIn, g_layerOut, g_prevOut, g_plots, g_lastPlot,
             g_readouts, g_readoutArg>>

statVars == <<nbdisplay, nbstep, nb_batch_in_buffer, buffer, steploss, steps,
              nb_events_seen, files, s_op, s_mode, s_updates, s_window,
              s_stepsum>>

convVars == <<c_impl, c_conv_type, c_out_fm, c_nb_op, c_pc, c_layer, c_exc,
              c_subconvs, c_lin, c_nlin, c_ops, c_emb_in, c_nb_nodes, c_linear,
              c_nlinear, c_checked, c_out>>

mainVars == <<m_mode, m_stdout, m_epoch, m_pc, m_exc, m_outfiles, m_models,
              m_epochs_done, m_plots>>

smVars == <<sm_dij, sm_pc, sm_flat, sm_soft, sm_out>>

gaVars == <<ga_kind, ga_diag, ga_layerwise, ga_var, ga_emb, ga_pc, ga_gauss,
            ga_adj, ga_saved>>

dgVars == <<dg_adj_in, dg_pc, dg_i, dg_sum, dg_exc, dg_out>>

mlVars == <<ml_layerwise, ml_adj_in, ml_emb_in, ml_pc, ml_i, ml_sample, ml_samples,
            ml_adj_list, ml_out, ml_saved>>

vars == <<kernelVars, gnnVars, statVars, convVars, mainVars, smVars, gaVars, dgVars,
          mlVars>>

\* what an action of one component leaves alone: the other components
notKernel == <<gnnVars, statVars, convVars, mainVars, smVars, gaVars, dgVars, mlVars>>
notGNN == <<kernelVars, statVars, convVars, mainVars, smVars, gaVars, dgVars, mlVars>>
notStat == <<kernelVars, gnnVars, convVars, mainVars, smVars, gaVars, dgVars, mlVars>>
notConv == <<kernelVars, gnnVars, statVars, mainVars, smVars, gaVars, dgVars, mlVars>>
notMain == <<kernelVars, gnnVars, statVars, convVars, smVars, gaVars, dgVars, mlVars>>
notSm == <<kernelVars, gnnVars, statVars, convVars, mainVars, gaVars, dgVars, mlVars>>
notGa == <<kernelVars, gnnVars, statVars, convVars, mainVars, smVars, dgVars, mlVars>>
notDg == <<kernelVars, gnnVars, statVars, convVars, mainVars, smVars, gaVars, mlVars>>
notMl == <<kernelVars, gnnVars, statVars, convVars, mainVars, smVars, gaVars, dgVars>>

-----------------------------------------------------------------------------
(* Bounds *)

\* number of distinct input tensors (embeddings / adjacencies) offered to a call
MaxIn == 2
\* largest number of (kernel, convolution) layers of a GNN
MaxLayers == 3
\* largest batch size of a GNN.forward call
MaxBatch == 2
\* largest nbdisplay (batches per statistics window)
MaxDisplay == 3
\* largest nbstep (train batches per step-loss window)
MaxStep == 2
\* number of Statistics.update calls in one run
MaxUpdates == 4
\* largest number of output feature maps asked of a convolution layer
MaxFm == 4
\* largest param.epoch
MaxEpoch == 3
\* largest batch of adjacencies handed to _softmax
MaxSmBatch == 2
\* largest batch handed to Gaussian.forward
MaxGaBatch == 2
\* largest sigma ** 2, in units of ln 2
MaxVar == 2
\* largest batch handed to DirectedGaussian.forward
MaxDgBatch == 2
\* largest batch handed to MLPdirected.forward
MaxMlBatch == 2
\* largest number of feature maps of emb_in in MLPdirected.forward
MaxMlFmap == 2

-----------------------------------------------------------------------------
(***************************************************************************)
(* Adjacency kernels: src/script/model/kernels/general.py                  *)
(*                                                                         *)
(* In this component a tensor is a symbolic term [ker, adj, emb]: the      *)
(* kernel class that computed it and the identities of the input tensors   *)
(* the class's forward reads.  Two terms are equal exactly when the same   *)
(* computation was applied to the same inputs.                             *)
(***************************************************************************)

Kinds == {"Identity", "Gaussian", "GaussianSoftmax", "DirectedGaussian",
          "MPNNdirected", "MLPdirected"}

Term(k, a, e) == [ker |-> k, adj |-> a, emb |-> e]

\* the attribute adj_matrix does not exist yet
NoAdj == Term("unset", 0, 0)
\* reading a missing attribute of an nn.Module raises AttributeError
AttributeError == Term("AttributeError", 0, 0)
\* a call that returns None
None == Term("None", 0, 0)
\* a tensor handed to save_adj by a caller outside the kernel
External(a) == Term("external", a, 0)

\* Which constructors hand their keyword arguments (layerwise among them) on
\* to Adj_Kernel.__init__.  DirectedGaussian, MPNNdirected and Identity call
\* super().__init__() with no argument, so layerwise keeps its default False.
AcceptsLayerwise(kind) == kind \in {"Gaussian", "GaussianSoftmax", "MLPdirected"}

\* Adj_Kernel.__init__: self.save_adj is _save_adj_no_save when layerwise,
\* self._save_adj otherwise.  The operator gives the new value of adj_matrix.
save_adj_drop(layerwise, cur, adj_in) == cur
save_adj(layerwise, cur, adj_in) == IF layerwise THEN cur ELSE adj_in

\* The adjacency a kernel's forward computes, as a term over the inputs it reads.
ForwardValue(kind, adj_in, emb_in) ==
  CASE kind = "Identity"         -> Term("Identity", 0, 0)
    [] kind = "Gaussian"         -> Term("Gaussian", 0, emb_in)
    [] kind = "GaussianSoftmax"  -> Term("GaussianSoftmax", 0, emb_in)
    [] kind = "DirectedGaussian" -> Term("DirectedGaussian", adj_in, emb_in)
    [] kind = "MPNNdirected"     -> Term("MPNNdirected", 0, emb_in)
    [] kind = "MLPdirected"      -> Term("MLPdirected", adj_in, emb_in)

\* Whether the class's forward ends with self.save_adj(adj).
ForwardSaves(kind) ==
  kind \in {"Identity", "Gaussian", "GaussianSoftmax", "MLPdirected"}

\* DirectedGaussian.forward calls self.gauss_ker(adj_in, emb_in): the inner
\* Gaussian (layerwise False) takes adj_in as its `emb` and caches its result.
InnerGaussian(adj_in) == Term("Gaussian", 0, adj_in)

\* The body of forward of the kernel's class.
ForwardBody(adj_in, emb_in) ==
  LET out == ForwardValue(k_kind, adj_in, emb_in) IN
  /\ k_ret' = out
  /\ k_ranForward' = TRUE
  /\ k_args' = <<adj_in, emb_in>>
  /\ IF ForwardSaves(k_kind)
       THEN /\ adj_matrix' = save_adj(k_layerwise, adj_matrix, out)
            /\ k_lastSaveArg' = out
       ELSE UNCHANGED <<adj_matrix, k_lastSaveArg>>
  /\ gauss_ker_adj' = IF k_kind = "DirectedGaussian"
                        THEN save_adj(FALSE, gauss_ker_adj, InnerGaussian(adj_in))
                        ELSE gauss_ker_adj

\* Adj_Kernel.update of the class: return self.adj_matrix
UpdateRecompute(adj_in, emb_in) ==
  /\ ForwardBody(adj_in, emb_in)
UpdateBody(adj_in, emb_in) ==
  /\ k_ret' = IF adj_matrix = NoAdj THEN AttributeError ELSE adj_matrix
  /\ k_ranForward' = FALSE
  /\ k_args' = <<adj_in, emb_in>>
  /\ UNCHANGED <<adj_matrix, gauss_ker_adj, k_lastSaveArg>>

\* the kernel object while another component is exercised
IdleKernel ==
  /\ k_kind = "Identity"
  /\ k_layerwise = FALSE
  /\ adj_matrix = NoAdj
  /\ gauss_ker_adj = NoAdj
  /\ k_op = "construct"
  /\ k_args = <<0, 0>>
  /\ k_ret = None
  /\ k_ranForward = FALSE
  /\ k_lastSaveArg = NoAdj

InitKernel ==
  /\ k_kind \in Kinds
  /\ k_layerwise \in {lw \in BOOLEAN : lw => AcceptsLayerwise(k_kind)}
  /\ adj_matrix = NoAdj
  /\ gauss_ker_adj = NoAdj
  /\ k_op = "construct"
  /\ k_args = <<0, 0>>
  /\ k_ret = None
  /\ k_ranForward = FALSE
  /\ k_lastSaveArg = NoAdj

\* kernel.forward(adj_in, emb_in, ...)
Forward ==
  \E adj_in \in 1..MaxIn, emb_in \in 1..MaxIn :
    /\ k_op' = "forward"
    /\ ForwardBody(adj_in, emb_in)
    /\ UNCHANGED <<k_kind, k_layerwise, notKernel>>

\* kernel.update(adj_in, emb_in, ...): the instance attribute `update` is the
\* bound forward when layerwise (line 78), the class's update otherwise.
Update ==
  \E adj_in \in 1..MaxIn, emb_in \in 1..MaxIn :
    /\ k_op' = "update"
    /\ IF k_layerwise
         THEN ForwardBody(adj_in, emb_in)
         ELSE UpdateBody(adj_in, emb_in)
    /\ UNCHANGED <<k_kind, k_layerwise, notKernel>>

\* kernel.save_adj(adj) called from outside forward
SaveAdj ==
  \E a \in 1..MaxIn :
    /\ k_op' = "save_adj"
    /\ adj_matrix' = save_adj(k_layerwise, adj_matrix, External(a))
    /\ k_lastSaveArg' = External(a)
    /\ k_ret' = None
    /\ k_ranForward' = FALSE
    /\ k_args' = <<a, 0>>
    /\ UNCHANGED <<k_kind, k_layerwise, gauss_ker_adj, notKernel>>

NextKernel == Forward \/ Update \/ SaveAdj

-----------------------------------------------------------------------------
(***************************************************************************)
(* GNN.forward: src/script/model/gnn/gnn.py                                *)
(*                                                                         *)
(* An embedding is emb[b][p] (graph b of the batch, node p; one feature    *)
(* map), an adjacency is adj[b][p][q].  The layers and the readout are     *)
(* built elsewhere (get_layers, get_readout); a layer call may return any  *)
(* embedding and adjacency of the right shape.                             *)
(***************************************************************************)

\* nodes per graph (nb_pts) of the call
NbPts == {2}
\* values of an embedding entry
EmbVals == {0, 1}

\* torch.ones(batch_size, nb_pts, nb_pts)
Ones(batch, n) == [b \in 1..batch |-> [p \in 1..n |-> [q \in 1..n |-> 1]]]
Eye(batch, n)  == [b \in 1..batch |-> [p \in 1..n |->
                     [q \in 1..n |-> IF p = q THEN 1 ELSE 0]]]

\* embeddings of shape (batch, n): every node of graph b carries f[b]
Embeddings(batch, n) ==
  {[b \in 1..batch |-> [p \in 1..n |-> f[b]]] : f \in [1..batch -> EmbVals]}
\* adjacencies a layer may return
Adjacencies(batch, n) == {Ones(batch, n), Eye(batch, n)}

BatchOf(emb) == Len(emb)
PtsOf(emb) == Len(emb[1])

NoPair == <<>>
NoPlot == <<>>

\* the GNN while another component is exercised
IdleGNN ==
  /\ g_pc = "idle"
  /\ g_L = 0
  /\ g_plotting = FALSE
  /\ g_input = <<>>
  /\ g_emb = <<>>
  /\ g_adj = <<>>
  /\ g_i = 0
  /\ g_ran = <<>>
  /\ g_layerIn = NoPair
  /\ g_layerOut = NoPair
  /\ g_prevOut = NoPair
  /\ g_plots = 0
  /\ g_lastPlot = NoPlot
  /\ g_readouts = 0
  /\ g_readoutArg = <<>>

\* GNN.__init__ and the arguments of one forward(emb, mask, batch_nb_nodes, plotting)
InitGNN ==
  /\ g_pc = "entry"
  /\ g_L \in 0..MaxLayers
  /\ g_plotting \in BOOLEAN
  /\ \E batch \in 1..MaxBatch, n \in NbPts : g_input \in Embeddings(batch, n)
  /\ g_emb = g_input
  /\ g_adj = <<>>
  /\ g_i = 0
  /\ g_ran = <<>>
  /\ g_layerIn = NoPair
  /\ g_layerOut = NoPair
  /\ g_prevOut = NoPair
  /\ g_plots = 0
  /\ g_lastPlot = NoPlot
  /\ g_readouts = 0
  /\ g_readoutArg = <<>>

\* lines 25-30: the dummy first adjacency
FirstAdjacency(emb) == Ones(BatchOf(emb), PtsOf(emb))

GnnEntry ==
  /\ g_pc = "entry"
  /\ g_adj' = FirstAdjacency(g_emb)
  /\ g_pc' = IF g_L > 0 THEN "loop" ELSE "readout"
  /\ UNCHANGED <<g_L, g_plotting, g_input, g_emb, g_i, g_ran, g_layerIn,
                 g_layerOut, g_prevOut, g_plots, g_lastPlot, g_readouts,
                 g_readoutArg, notGNN>>

\* what line 34 hands to layer i: the current locals
LayerArgsStale(emb, adj) == <<emb, FirstAdjacency(emb)>>
LayerArgs(emb, adj) == <<emb, adj>>

\* position after the layer call of iteration i (lines 35-37 and the loop test)
AfterLayerSkipLast(i) ==
  IF g_plotting /\ i + 1 < g_L THEN "plot" ELSE IF i + 1 < g_L THEN "loop" ELSE "readout"
AfterLayer(i) ==
  IF g_plotting THEN "plot" ELSE IF i + 1 < g_L THEN "loop" ELSE "readout"

\* line 34: emb, adj = layer(emb, adj, mask, batch_nb_nodes)
GnnLayer ==
  /\ g_pc = "loop"
  /\ g_i < g_L
  /\ \E e \in Embeddings(BatchOf(g_emb), PtsOf(g_emb)),
        a \in Adjacencies(BatchOf(g_emb), PtsOf(g_emb)) :
       /\ g_layerIn' = LayerArgs(g_emb, g_adj)
       /\ g_prevOut' = g_layerOut
       /\ g_layerOut' = <<e, a>>
       /\ g_emb' = e
       /\ g_adj' = a
  /\ g_ran' = Append(g_ran, g_i)
  /\ g_pc' = AfterLayer(g_i)
  /\ g_i' = IF g_plotting THEN g_i ELSE g_i + 1
  /\ UNCHANGED <<g_L, g_plotting, g_input, g_plots, g_lastPlot, g_readouts,
                 g_readoutArg, notGNN>>

\* line 37: plotting.plot_graph(emb[0]..., adj[0]..., i)
GnnPlot ==
  /\ g_pc = "plot"
  /\ g_plots' = g_plots + 1
  /\ g_lastPlot' = <<g_emb[1], g_adj[1], g_i>>
  /\ g_i' = g_i + 1
  /\ g_pc' = IF g_i + 1 < g_L THEN "loop" ELSE "readout"
  /\ UNCHANGED <<g_L, g_plotting, g_input, g_emb, g_adj, g_ran, g_layerIn,
                 g_layerOut, g_prevOut, g_readouts, g_readoutArg, notGNN>>

\* line 40: return self.readout(emb, mask, batch_nb_nodes)
GnnReadout ==
  /\ g_pc = "readout"
  /\ g_readouts' = g_readouts + 1
  /\ g_readoutArg' = g_emb
  /\ g_pc' = "done"
  /\ UNCHANGED <<g_L, g_plotting, g_input, g_emb, g_adj, g_i, g_ran, g_layerIn,
                 g_layerOut, g_prevOut, g_plots, g_lastPlot, notGNN>>

NextGNN == GnnEntry \/ GnnLayer \/ GnnPlot \/ GnnReadout

-----------------------------------------------------------------------------
(***************************************************************************)
(* Statistics: src/Atlas_nyu/statistics.py                                 *)
(*                                                                         *)
(* The running sums are integers (outputs and losses are given in integer  *)
(* units).  A value written to a file is an exact number                   *)
(* [num, den, root]: num/den, or its square root when root is TRUE.        *)
(***************************************************************************)

Modes == {"train", "test"}
\* self.stats (line 19)
stats == <<"loss", "kernel", "avg0", "avg1", "std0", "std1">>
StatNames == {stats[k] : k \in 1..Len(stats)}
\* the keys of self.buffer[mode] (lines 124-127)
BufferKeys == StatNames \cup {"nb_ones", "nb_zero"}
\* the files of _init_files (lines 118-120)
FileNames == StatNames \cup {"loss_step"}

\* arguments of update: label and output tensors of one batch, loss, kernel width
LabelVals == {0, 1}
OutputVals == {1, 3}
LossVals == {1, 2}
KernelVals == {1}
BatchSizes == {1}

RECURSIVE SumSeq(_)
SumSeq(t) == IF t = <<>> THEN 0 ELSE t[1] + SumSeq(Tail(t))

RECURSIVE Gcd(_, _)
Gcd(a, b) == IF b = 0 THEN a ELSE Gcd(b, a % b)
Abs(x) == IF x < 0 THEN -x ELSE x

\* the number n/d (d > 0), in lowest terms
Rat(n, d) ==
  LET g == Gcd(Abs(n), d) IN [num |-> n \div g, den |-> d \div g, root |-> FALSE]
\* a - b ** 2
MinusSquare(a, b) == Rat(a.num * b.den * b.den - b.num * b.num * a.den, a.den * b.den * b.den)
\* var -= avg ** 2 (lines 84, 91) in floating point: when the exact difference
\* is 0 the computed one can be a tiny negative number (err), otherwise the
\* exact value stands for the computed one
FloatMinusSquare(a, b, err) ==
  LET x == MinusSquare(a, b) IN
  IF x.num = 0 /\ err THEN Rat(-1, 1000000) ELSE x
\* max(0, a)
Max0NoClamp(a) == a
Max0(a) == IF a.num < 0 THEN Rat(0, 1) ELSE a
\* math.sqrt(a); for a negative argument it raises ValueError: the result is
\* then the root of a negative number, which no caller can use
sqrt(a) == [a EXCEPT !.root = TRUE]

\* _init_buffer (lines 122-127): the buffer of one mode after a reset
InitBufferKeepCounts(old) == [k \in BufferKeys |-> IF k \in StatNames THEN 0 ELSE old[k]]
InitBuffer(old) == [k \in BufferKeys |-> 0]

\* update, lines 50-70: one batch added to the running sums of a mode
Accumulate(b, output, labels, loss_step, kernel_std) ==
  LET n == Len(labels)
      output_ones == [k \in 1..n |-> output[k] * labels[k]]
      output_zero == [k \in 1..n |-> output[k] * (1 - labels[k])]
  IN [b EXCEPT
        !["loss"] = @ + loss_step,
        !["kernel"] = @ + kernel_std,
        !["nb_ones"] = @ + SumSeq(labels),
        !["avg1"] = @ + SumSeq(output_ones),
        !["std1"] = @ + SumSeq([k \in 1..n |-> output_ones[k] * output_ones[k]]),
        !["nb_zero"] = @ + SumSeq([k \in 1..n |-> 1 - labels[k]]),
        !["avg0"] = @ + SumSeq(output_zero),
        !["std0"] = @ + SumSeq([k \in 1..n |-> output_zero[k] * output_zero[k]])]

\* _update_buffer, lines 78-93: the statistics of a completed window
Normalised(b, err1, err0) ==
  LET avg1 == IF b["nb_ones"] > 0 THEN Rat(b["avg1"], b["nb_ones"]) ELSE Rat(b["avg1"], 1)
      std1 == IF b["nb_ones"] > 0
                THEN sqrt(Max0(FloatMinusSquare(Rat(b["std1"], b["nb_ones"]), avg1, err1)))
                ELSE Rat(b["std1"], 1)
      avg0 == IF b["nb_zero"] > 0 THEN Rat(b["avg0"], b["nb_zero"]) ELSE Rat(b["avg0"], 1)
      std0 == IF b["nb_zero"] > 0
                THEN sqrt(Max0(FloatMinusSquare(Rat(b["std0"], b["nb_zero"]), avg0, err0)))
                ELSE Rat(b["std0"], 1)
  IN [loss |-> Rat(b["loss"], nbdisplay), kernel |-> Rat(b["kernel"], nbdisplay),
      avg0 |-> avg0, avg1 |-> avg1, std0 |-> std0, std1 |-> std1]

\* the statistics a completed window can yield, one for every way the two
\* subtractions can round; nothing is computed while the window is open
RoundingCases(sq, sm, n) == IF n > 0 /\ sq * n = sm * sm THEN BOOLEAN ELSE {FALSE}
WindowStats(b, complete) ==
  IF complete
    THEN {Normalised(b, err1, err0) :
            err1 \in RoundingCases(b["std1"], b["avg1"], b["nb_ones"]),
            err0 \in RoundingCases(b["std0"], b["avg0"], b["nb_zero"])}
    ELSE {<<>>}

\* _update_buffer, line 77: the test that ends a window
WindowCompleteLate(count) == count > nbdisplay
WindowComplete(count) == count >= nbdisplay

\* _update_buffer, lines 95-112: only the train branch calls write_stat
WritesStatsAlways(mode) == TRUE
WritesStats(mode) == mode = "train"

\* write_stat (lines 129-132)
write_stat(f, statname, value) == [f EXCEPT ![statname] = Append(@, value)]

\* lines 96-97: for stat in self.stats: self.write_stat(stat, self.buffer[mode][stat])
RECURSIVE WriteAll(_, _, _)
WriteAll(f, values, k) ==
  IF k > Len(stats) THEN f
  ELSE WriteAll(write_stat(f, stats[k], values[stats[k]]), values, k + 1)

\* nothing printed: the last operation completed no window
NoWindow == [mode |-> "none"]

\* the value of every variable right after Statistics.__init__
FreshStats ==
  /\ nb_batch_in_buffer = [m \in Modes |-> 0]
  /\ buffer = [m \in Modes |-> [k \in BufferKeys |-> 0]]
  /\ steploss = 0
  /\ steps = 0
  /\ nb_events_seen = [m \in Modes |-> 0]
  /\ files = [f \in FileNames |-> <<>>]
  /\ s_op = "init"
  /\ s_mode = "train"
  /\ s_updates = [m \in Modes |-> 0]
  /\ s_window = NoWindow
  /\ s_stepsum = 0

\* the statistics object while another component is exercised
IdleStats ==
  /\ nbdisplay = 1
  /\ nbstep = 1
  /\ FreshStats

\* Statistics.__init__ (lines 9-31)
InitStats ==
  /\ nbdisplay \in 1..MaxDisplay
  /\ nbstep \in 1..MaxStep
  /\ FreshStats

\* update(mode, output, labels, loss_step, kernel_std), with _update_buffer
StatUpdate ==
  /\ s_updates["train"] + s_updates["test"] < MaxUpdates
  /\ \E mode \in Modes, n \in BatchSizes, loss_step \in LossVals, kernel_std \in KernelVals :
     \E labels \in [1..n -> LabelVals], output \in [1..n -> OutputVals] :
     \E b1 \in {Accumulate(buffer[mode], output, labels, loss_step, kernel_std)} :
     \E shown \in WindowStats(b1, WindowComplete(nb_batch_in_buffer[mode] + 1)) :
       LET stepDue == mode = "train" /\ steps + 1 >= nbstep
           f1 == IF stepDue
                   THEN write_stat(files, "loss_step", Rat(loss_step, nbstep))
                   ELSE files
           count == nb_batch_in_buffer[mode] + 1
           complete == WindowComplete(count)
       IN
       /\ nb_events_seen' = [nb_events_seen EXCEPT ![mode] = @ + Len(labels)]
       /\ steploss' = IF mode = "train"
                        THEN (IF stepDue THEN 0 ELSE steploss + loss_step)
                        ELSE steploss
       /\ steps' = IF mode = "train" THEN (IF stepDue THEN 0 ELSE steps + 1) ELSE steps
       /\ files' = IF complete /\ WritesStats(mode)
                     THEN WriteAll(f1, shown, 1)
                     ELSE f1
       /\ buffer' = [buffer EXCEPT ![mode] = IF complete THEN InitBuffer(b1) ELSE b1]
       /\ nb_batch_in_buffer' = [nb_batch_in_buffer EXCEPT
                                   ![mode] = IF complete THEN 0 ELSE count]
       /\ s_op' = "update"
       /\ s_mode' = mode
       /\ s_updates' = [s_updates EXCEPT ![mode] = @ + 1]
       /\ s_window' = IF complete
                        THEN [mode |-> mode, ones |-> b1["nb_ones"] > 0,
                              zero |-> b1["nb_zero"] > 0,
                              std0 |-> shown["std0"], std1 |-> shown["std1"]]
                        ELSE NoWindow
       /\ s_stepsum' = IF mode = "train"
                         THEN (IF steps = 0 THEN loss_step ELSE s_stepsum + loss_step)
                         ELSE s_stepsum
       /\ UNCHANGED <<nbdisplay, nbstep, notStat>>

\* flush() (lines 134-141)
StatFlush ==
  /\ s_updates["train"] + s_updates["test"] < MaxUpdates
  /\ steploss' = 0
  /\ buffer' = [buffer EXCEPT !["test"] =
                  [k \in BufferKeys |-> IF k \in StatNames THEN 0 ELSE @[k]]]
  /\ nb_events_seen' = [nb_events_seen EXCEPT !["test"] = 0]
  /\ s_op' = "flush"
  /\ s_window' = NoWindow
  /\ UNCHANGED <<nbdisplay, nbstep, nb_batch_in_buffer, steps, files, s_mode,
                 s_updates, s_stepsum, notStat>>

NextStats == StatUpdate \/ StatFlush

-----------------------------------------------------------------------------
(***************************************************************************)
(* Graph convolutions: src/script/model/gnn/graphconv.py ("gnn") and       *)
(* src/script/model/graphconv.py ("model")                                 *)
(*                                                                         *)
(* A scalar is [nan, v]: NaN, or the number v.  Embedding entries are      *)
(* given in twelfths, so that a mean over 1 to 4 nodes is exact.  One      *)
(* graph per batch and one input feature map: an embedding is a sequence   *)
(* of scalars over the nodes, an operator a square matrix of scalars.      *)
(***************************************************************************)

NaN == [nan |-> TRUE, v |-> 0]
Num(x) == [nan |-> FALSE, v |-> x]
Add(a, b) == IF a.nan \/ b.nan THEN NaN ELSE Num(a.v + b.v)
Mul(a, b) == IF a.nan \/ b.nan THEN NaN ELSE Num(a.v * b.v)
DivInt(a, k) == IF a.nan THEN NaN ELSE Num(a.v \div k)

RECURSIVE SumScalars(_)
SumScalars(t) == IF t = <<>> THEN Num(0) ELSE Add(t[1], SumScalars(Tail(t)))

\* (t != t).data.sum() > 0
HasNan(t) == \E k \in 1..Len(t) : t[k].nan

\* what relu may make of one entry: NaN stays NaN or becomes 0, by the
\* comparison the torch build uses
ReluOutcomes(a) ==
  IF a.nan THEN {NaN, Num(0)} ELSE {IF a.v > 0 THEN a ELSE Num(0)}

\* the tensors relu(t) may be
RECURSIVE relu(_)
relu(t) ==
  IF t = <<>> THEN {<<>>}
  ELSE {<<h>> \o r : h \in ReluOutcomes(t[1]), r \in relu(Tail(t))}

ConvImpls == {"gnn", "model"}
ConvTypes == {"ResGNN", "Simple", "resgnn", "GCN"}
NodeCounts == {2, 4}
FiniteVals == {12, 36}
WeightVals == {-1, 2}
BiasVals == {Num(12), NaN}

\* embeddings of one graph with n nodes: all finite, or one NaN entry
ConvEmbeddings(n) ==
  {[k \in 1..n |-> Num(f[k])] : f \in [1..n -> FiniteVals]}
    \cup {[k \in 1..n |-> IF k = j THEN NaN ELSE Num(12)] : j \in 1..n}

\* the stacked operators of one graph: None without operators, else one operator
NoOps == <<>>
EyeOp(n) == [i \in 1..n |-> [k \in 1..n |-> IF i = k THEN Num(1) ELSE Num(0)]]
OnesOp(n) == [i \in 1..n |-> [k \in 1..n |-> Num(1)]]
OpsFor(nb_op, n) == IF nb_op = 0 THEN {NoOps} ELSE {EyeOp(n), OnesOp(n)}

\* GraphOpConv.__init__: the weight has in_fm * (nb_op + 2) columns in "model"
\* (line 51) and the Linear in_fm * (nb_op + 1) inputs in "gnn" (line 83)
NbChannels(impl, nb_op) == IF impl = "model" THEN nb_op + 2 ELSE nb_op + 1
ConvParams(impl, nb_op) ==
  {[w |-> w, b |-> b] : w \in [1..NbChannels(impl, nb_op) -> WeightVals], b \in BiasVals}
NoParams == [w |-> <<>>, b |-> Num(0)]

\* mean_with_padding(emb_in, batch_nb_nodes, adj_mask): the mean over the
\* first batch_nb_nodes nodes of the graph
mean_with_padding(emb, nb) == DivInt(SumScalars(SubSeq(emb, 1, nb)), nb)

\* torch.bmm(emb_in, ops) in "model": spread[k] = sum_i emb[i] * op[i][k]
SpreadRight(emb, op) ==
  [k \in 1..Len(emb) |-> SumScalars([i \in 1..Len(emb) |-> Mul(emb[i], op[i][k])])]
\* torch.bmm(ops, emb_in) in "gnn": spread[k] = sum_i op[k][i] * emb[i]
SpreadLeft(emb, op) ==
  [k \in 1..Len(emb) |-> SumScalars([i \in 1..Len(emb) |-> Mul(op[k][i], emb[i])])]

\* weight and bias applied to the concatenated channels, node by node
Affine(p, channels) ==
  [k \in 1..Len(channels[1]) |->
     Add(SumScalars([c \in 1..Len(channels) |-> Mul(Num(p.w[c]), channels[c][k])]), p.b)]

Returned(t) == [exc |-> "none", val |-> t]
Raised(e) == [exc |-> e, val |-> <<>>]

\* GraphOpConv.forward of script/model/graphconv.py (lines 59-82)
ModelGraphOpConv(p, ops, emb, nb) ==
  LET avg == [k \in 1..Len(emb) |-> mean_with_padding(emb, nb)]
      spread == IF ops = NoOps THEN <<emb, avg>>
                               ELSE <<emb, avg, SpreadRight(emb, ops)>>
  IN Returned(Affine(p, spread))

\* GraphOpConv.forward of script/model/gnn/graphconv.py (lines 85-116): the
\* assignment of avg is commented out, so the ops-is-None branch reads an
\* undefined name
GnnGraphOpConv(p, ops, emb, nb) ==
  IF ops = NoOps THEN Raised("NameError")
  ELSE Returned(Affine(p, <<emb, SpreadLeft(emb, ops)>>))

GraphOpConvForward(impl, p, ops, emb, nb) ==
  IF impl = "model" THEN ModelGraphOpConv(p, ops, emb, nb)
                    ELSE GnnGraphOpConv(p, ops, emb, nb)

\* get_convolution_layer, lines 16-22: the class chosen for conv_type
ConvClassLenient(conv_type) ==
  IF conv_type = "ResGNN" THEN "ResGOpConv" ELSE "Simple"
ConvClass(conv_type) ==
  CASE conv_type = "ResGNN" -> "ResGOpConv"
    [] conv_type = "Simple" -> "Simple"
    [] OTHER -> "none"

\* ResGOpConv.__init__: if out_fm % 2 != 0: raise ValueError
OddOutFmIgnored(out_fm) == FALSE
OddOutFm(out_fm) == out_fm % 2 # 0

\* the statements of ResGOpConv.forward, in program order
ResOrderCheckLate == <<"lin", "nlin", "chk_lin", "chk_nlin", "relu", "cat">>
ResOrder == <<"lin", "chk_lin", "nlin", "chk_nlin", "relu", "cat">>

\* the statement after statement pc
After(pc) ==
  LET k == CHOOSE j \in 1..Len(ResOrder) : ResOrder[j] = pc
  IN IF k = Len(ResOrder) THEN "returned" ELSE ResOrder[k + 1]

ConvIdleFields ==
  /\ c_layer = "none"
  /\ c_exc = "none"
  /\ c_subconvs = 0
  /\ c_lin = NoParams
  /\ c_nlin = NoParams
  /\ c_ops = NoOps
  /\ c_emb_in = <<>>
  /\ c_nb_nodes = 0
  /\ c_linear = <<>>
  /\ c_nlinear = <<>>
  /\ c_checked = {}
  /\ c_out = <<>>

\* the convolution while another component is exercised
IdleConv ==
  /\ c_impl = "gnn"
  /\ c_conv_type = "Simple"
  /\ c_out_fm = 0
  /\ c_nb_op = 0
  /\ c_pc = "idle"
  /\ ConvIdleFields

\* a call get_convolution_layer(fmap_in, fmap_out, nb_operators) ("gnn"), or
\* ResGOpConv(in_fm, out_fm, nb_op) ("model", which has no factory)
InitConv ==
  /\ c_impl \in ConvImpls
  /\ c_conv_type \in (IF c_impl = "gnn" THEN ConvTypes ELSE {"ResGNN"})
  /\ c_out_fm \in 1..MaxFm
  /\ c_nb_op \in {0, 1}
  /\ c_pc = IF c_impl = "gnn" THEN "call" ELSE "res_init"
  /\ ConvIdleFields

\* get_convolution_layer (gnn/graphconv.py lines 11-24)
GetConvolutionLayer ==
  /\ c_pc = "call"
  /\ LET cls == ConvClass(c_conv_type) IN
     /\ c_pc' = CASE cls = "ResGOpConv" -> "res_init"
                  [] cls = "Simple" -> "simple_init"
                  [] OTHER -> "raised"
     /\ c_exc' = IF cls = "none" THEN "Exception" ELSE c_exc
  /\ UNCHANGED <<c_impl, c_conv_type, c_out_fm, c_nb_op, c_layer, c_subconvs,
                 c_lin, c_nlin, c_ops, c_emb_in, c_nb_nodes, c_linear, c_nlinear,
                 c_checked, c_out, notConv>>

\* Simple.__init__ (gnn/graphconv.py lines 27-31)
SimpleInit ==
  /\ c_pc = "simple_init"
  /\ c_layer' = "Simple"
  /\ c_pc' = "built"
  /\ UNCHANGED <<c_impl, c_conv_type, c_out_fm, c_nb_op, c_exc, c_subconvs,
                 c_lin, c_nlin, c_ops, c_emb_in, c_nb_nodes, c_linear, c_nlinear,
                 c_checked, c_out, notConv>>

\* ResGOpConv.__init__, the parity test
ResInit ==
  /\ c_pc = "res_init"
  /\ IF OddOutFm(c_out_fm)
       THEN c_pc' = "raised" /\ c_exc' = "ValueError"
       ELSE c_pc' = "mk_lin" /\ c_exc' = c_exc
  /\ UNCHANGED <<c_impl, c_conv_type, c_out_fm, c_nb_op, c_layer, c_subconvs,
                 c_lin, c_nlin, c_ops, c_emb_in, c_nb_nodes, c_linear, c_nlinear,
                 c_checked, c_out, notConv>>

\* self.gconv_lin = GraphOpConv(in_fm, half_out_fm, nb_op)
MkLin ==
  /\ c_pc = "mk_lin"
  /\ c_lin' \in ConvParams(c_impl, c_nb_op)
  /\ c_subconvs' = c_subconvs + 1
  /\ c_pc' = "mk_nlin"
  /\ UNCHANGED <<c_impl, c_conv_type, c_out_fm, c_nb_op, c_layer, c_exc,
                 c_nlin, c_ops, c_emb_in, c_nb_nodes, c_linear, c_nlinear,
                 c_checked, c_out, notConv>>

\* self.gconv_nlin = GraphOpConv(in_fm, half_out_fm, nb_op); the constructor returns
MkNlin ==
  /\ c_pc = "mk_nlin"
  /\ c_nlin' \in ConvParams(c_impl, c_nb_op)
  /\ c_subconvs' = c_subconvs + 1
  /\ c_layer' = "ResGOpConv"
  /\ c_pc' = "built"
  /\ UNCHANGED <<c_impl, c_conv_type, c_out_fm, c_nb_op, c_exc,
                 c_lin, c_ops, c_emb_in, c_nb_nodes, c_linear, c_nlinear,
                 c_checked, c_out, notConv>>

\* a call forward(ops, emb_in, batch_nb_nodes, adj_mask) of a ResGOpConv with
\* one feature map per branch
ResForward ==
  /\ c_pc = "built"
  /\ c_layer = "ResGOpConv"
  /\ c_out_fm = 2
  /\ \E n \in NodeCounts :
       /\ c_emb_in' \in ConvEmbeddings(n)
       /\ c_nb_nodes' \in 1..n
       /\ c_ops' \in OpsFor(c_nb_op, n)
  /\ c_pc' = ResOrder[1]
  /\ UNCHANGED <<c_impl, c_conv_type, c_out_fm, c_nb_op, c_layer, c_exc,
                 c_subconvs, c_lin, c_nlin, c_linear, c_nlinear, c_checked,
                 c_out, notConv>>

\* linear = self.gconv_lin(ops, emb_in, batch_nb_nodes, adj_mask)
ResLin ==
  /\ c_pc = "lin"
  /\ LET r == GraphOpConvForward(c_impl, c_lin, c_ops, c_emb_in, c_nb_nodes) IN
     /\ c_linear' = r.val
     /\ c_exc' = r.exc
     /\ c_pc' = IF r.exc = "none" THEN After("lin") ELSE "raised"
  /\ UNCHANGED <<c_impl, c_conv_type, c_out_fm, c_nb_op, c_layer, c_subconvs,
                 c_lin, c_nlin, c_ops, c_emb_in, c_nb_nodes, c_nlinear, c_checked,
                 c_out, notConv>>

\* nlinear = self.gconv_nlin(ops, emb_in, batch_nb_nodes, adj_mask)
ResNlin ==
  /\ c_pc = "nlin"
  /\ LET r == GraphOpConvForward(c_impl, c_nlin, c_ops, c_emb_in, c_nb_nodes) IN
     /\ c_nlinear' = r.val
     /\ c_exc' = r.exc
     /\ c_pc' = IF r.exc = "none" THEN After("nlin") ELSE "raised"
  /\ UNCHANGED <<c_impl, c_conv_type, c_out_fm, c_nb_op, c_layer, c_subconvs,
                 c_lin, c_nlin, c_ops, c_emb_in, c_nb_nodes, c_linear, c_checked,
                 c_out, notConv>>

\* check_for_nan(tensor, message): aborts when the tensor holds a NaN
check_for_nan(t) == IF HasNan(t) THEN "NanAbort" ELSE "none"

\* check_for_nan(linear, 'NAN in resgconv : linear')
ResCheckLin ==
  /\ c_pc = "chk_lin"
  /\ c_exc' = check_for_nan(c_linear)
  /\ c_checked' = IF HasNan(c_linear) THEN c_checked ELSE c_checked \cup {"linear"}
  /\ c_pc' = IF HasNan(c_linear) THEN "raised" ELSE After("chk_lin")
  /\ UNCHANGED <<c_impl, c_conv_type, c_out_fm, c_nb_op, c_layer, c_subconvs,
                 c_lin, c_nlin, c_ops, c_emb_in, c_nb_nodes, c_linear, c_nlinear,
                 c_out, notConv>>

\* check_for_nan(nlinear, 'NAN in resgconv : nlinear')
ResCheckNlin ==
  /\ c_pc = "chk_nlin"
  /\ c_exc' = check_for_nan(c_nlinear)
  /\ c_checked' = IF HasNan(c_nlinear) THEN c_checked ELSE c_checked \cup {"nlinear"}
  /\ c_pc' = IF HasNan(c_nlinear) THEN "raised" ELSE After("chk_nlin")
  /\ UNCHANGED <<c_impl, c_conv_type, c_out_fm, c_nb_op, c_layer, c_subconvs,
                 c_lin, c_nlin, c_ops, c_emb_in, c_nb_nodes, c_linear, c_nlinear,
                 c_out, notConv>>

\* nlinear = relu(nlinear)
ResRelu ==
  /\ c_pc = "relu"
  /\ c_nlinear' \in relu(c_nlinear)
  /\ c_pc' = After("relu")
  /\ UNCHANGED <<c_impl, c_conv_type, c_out_fm, c_nb_op, c_layer, c_exc, c_subconvs,
                 c_lin, c_nlin, c_ops, c_emb_in, c_nb_nodes, c_linear, c_checked,
                 c_out, notConv>>

\* emb_out = torch.cat((linear, nlinear), ...); the final NaN test; return emb_out
ResCat ==
  /\ c_pc = "cat"
  /\ LET emb_out == <<c_linear, c_nlinear>> IN
     /\ c_out' = emb_out
     /\ IF HasNan(c_linear \o c_nlinear)
          THEN c_pc' = "raised" /\ c_exc' = "AssertionError"
          ELSE c_pc' = After("cat") /\ c_exc' = c_exc
  /\ UNCHANGED <<c_impl, c_conv_type, c_out_fm, c_nb_op, c_layer, c_subconvs,
                 c_lin, c_nlin, c_ops, c_emb_in, c_nb_nodes, c_linear, c_nlinear,
                 c_checked, notConv>>

NextConv ==
  \/ GetConvolutionLayer \/ SimpleInit \/ ResInit \/ MkLin \/ MkNlin
  \/ ResForward \/ ResLin \/ ResCheckLin \/ ResNlin \/ ResCheckNlin
  \/ ResRelu \/ ResCat

-----------------------------------------------------------------------------
(***************************************************************************)
(* main(): src/main_atlas.py                                               *)
(***************************************************************************)

\* the modes main names (lines 51-62)
KnownModes == {"train", "test", "plot", "description", "prepare_data",
               "weight_average", "setdefault"}
\* values of param.mode, two of them names main does not know
MainModes == KnownModes \cup {"", "Train"}

\* lines 50-65: what main does for param.mode
DispatchSilent(action) ==
  CASE action \in {"train", "test"} -> "train_or_test"
    [] action = "plot" -> "plot"
    [] action = "description" -> "description"
    [] action \in {"prepare_data", "weight_average"} -> "NotImplementedError"
    [] action = "setdefault" -> "returned"
    [] OTHER -> "Exception"
Dispatch(action) ==
  CASE action \in {"train", "test"} -> "train_or_test"
    [] action = "plot" -> "plot"
    [] action = "description" -> "description"
    [] action \in {"prepare_data", "weight_average", "setdefault"} -> "NotImplementedError"
    [] OTHER -> "Exception"

IdleMain ==
  /\ m_mode = "plot"
  /\ m_stdout = FALSE
  /\ m_epoch = 0
  /\ m_pc = "idle"
  /\ m_exc = "none"
  /\ m_outfiles = 0
  /\ m_models = 0
  /\ m_epochs_done = 0
  /\ m_plots = 0

\* the configuration Config(...) reads (line 39)
InitMain ==
  /\ m_mode \in MainModes
  /\ m_stdout \in BOOLEAN
  /\ m_epoch \in 0..MaxEpoch
  /\ m_pc = "start"
  /\ m_exc = "none"
  /\ m_outfiles = 0
  /\ m_models = 0
  /\ m_epochs_done = 0
  /\ m_plots = 0

\* lines 37-47: Config, and the output file when param.stdout is given
MainSetup ==
  /\ m_pc = "start"
  /\ m_outfiles' = IF m_stdout THEN m_outfiles + 1 ELSE m_outfiles
  /\ m_pc' = "dispatch"
  /\ UNCHANGED <<m_mode, m_stdout, m_epoch, m_exc, m_models, m_epochs_done,
                 m_plots, notMain>>

\* lines 50-65: the if / elif chain; the raising branches raise here
MainDispatch ==
  /\ m_pc = "dispatch"
  /\ LET d == Dispatch(m_mode) IN
     IF d \in {"NotImplementedError", "Exception"}
       THEN m_pc' = "raised" /\ m_exc' = d
       ELSE m_pc' = d /\ m_exc' = m_exc
  /\ UNCHANGED <<m_mode, m_stdout, m_epoch, m_outfiles, m_models, m_epochs_done,
                 m_plots, notMain>>

\* train_or_test, lines 12-17: get_model, printdescr, criterion, optimizer
TrainOrTestStart ==
  /\ m_pc = "train_or_test"
  /\ m_models' = m_models + 1
  /\ m_pc' = IF m_epoch > 0 THEN "epochs" ELSE "returned"
  /\ UNCHANGED <<m_mode, m_stdout, m_epoch, m_exc, m_outfiles, m_epochs_done,
                 m_plots, notMain>>

\* train_or_test, lines 21-25: one model.do_one_epoch
TrainOrTestEpoch ==
  /\ m_pc = "epochs"
  /\ m_epochs_done' = m_epochs_done + 1
  /\ m_pc' = IF m_epochs_done + 1 < m_epoch THEN "epochs" ELSE "returned"
  /\ UNCHANGED <<m_mode, m_stdout, m_epoch, m_exc, m_outfiles, m_models,
                 m_plots, notMain>>

\* plot (lines 32-33)
MainPlot ==
  /\ m_pc = "plot"
  /\ m_plots' = m_plots + 1
  /\ m_pc' = "returned"
  /\ UNCHANGED <<m_mode, m_stdout, m_epoch, m_exc, m_outfiles, m_models,
                 m_epochs_done, notMain>>

\* lines 55-57: get_model and model.print_()
MainDescription ==
  /\ m_pc = "description"
  /\ m_models' = m_models + 1
  /\ m_pc' = "returned"
  /\ UNCHANGED <<m_mode, m_stdout, m_epoch, m_exc, m_outfiles, m_epochs_done,
                 m_plots, notMain>>

NextMain ==
  \/ MainSetup \/ MainDispatch \/ TrainOrTestStart \/ TrainOrTestEpoch
  \/ MainPlot \/ MainDescription

-----------------------------------------------------------------------------
(***************************************************************************)
(* _softmax: src/script/model/kernels/general.py, lines 247-258            *)
(*                                                                         *)
(* The entries of dij are given in units of ln 2, so exp(x) is the integer *)
(* 2^x and a softmax entry is the exact fraction 2^x / (sum of the 2^y).   *)
(***************************************************************************)

\* nodes per graph
SmNodes == {2}
\* entries of dij
SmVals == {0, 1}

RECURSIVE Pow2(_)
Pow2(x) == IF x = 0 THEN 1 ELSE 2 * Pow2(x - 1)

RECURSIVE SumInts(_)
SumInts(t) == IF t = <<>> THEN 0 ELSE t[1] + SumInts(Tail(t))

\* concatenation of a sequence of sequences
RECURSIVE Concat(_)
Concat(ts) == IF ts = <<>> THEN <<>> ELSE ts[1] \o Concat(Tail(ts))

\* torch.unbind(dij, dim=0): the tuple of the batch's matrices
unbind(t) == t
\* torch.cat(tuple of matrices, dim=0): their rows, one matrix after the other
cat(ts) == Concat(ts)

\* nn.Softmax() on a 2-D input: the softmax of every row
softmax_dim0(m) ==
  [r \in 1..Len(m) |-> [k \in 1..Len(m[r]) |->
     Rat(Pow2(m[r][k]), SumInts([q \in 1..Len(m) |-> Pow2(m[q][k])]))]]
softmax_fct(m) ==
  [r \in 1..Len(m) |-> [k \in 1..Len(m[r]) |->
     Rat(Pow2(m[r][k]), SumInts([q \in 1..Len(m[r]) |-> Pow2(m[r][q])]))]]

\* torch.chunk(m, chunks, dim=0): pieces of ceil(rows / chunks) rows, the last
\* one possibly shorter
chunk(m, chunks) ==
  LET size == (Len(m) + chunks - 1) \div chunks
      count == (Len(m) + size - 1) \div size
  IN [c \in 1..count |->
        SubSeq(m, (c - 1) * size + 1, IF c * size < Len(m) THEN c * size ELSE Len(m))]
\* torch.stack(tuple of matrices, dim=0)
stack(ts) == ts

IdleSoftmax ==
  /\ sm_dij = <<>>
  /\ sm_pc = "idle"
  /\ sm_flat = <<>>
  /\ sm_soft = <<>>
  /\ sm_out = <<>>

\* a call _softmax(dij, nn.Softmax()) on a (batch, n, n) tensor
InitSoftmax ==
  /\ \E batch \in 1..MaxSmBatch, n \in SmNodes :
       sm_dij \in [1..batch -> [1..n -> [1..n -> SmVals]]]
  /\ sm_pc = "flatten"
  /\ sm_flat = <<>>
  /\ sm_soft = <<>>
  /\ sm_out = <<>>

\* lines 248-251: batch = dij.size()[0]; unbind; cat
SmFlatten ==
  /\ sm_pc = "flatten"
  /\ sm_flat' = cat(unbind(sm_dij))
  /\ sm_pc' = "softmax"
  /\ UNCHANGED <<sm_dij, sm_soft, sm_out, notSm>>

\* line 253: dij = _softmax_fct(dij)
SmApply ==
  /\ sm_pc = "softmax"
  /\ sm_soft' = softmax_fct(sm_flat)
  /\ sm_pc' = "restore"
  /\ UNCHANGED <<sm_dij, sm_flat, sm_out, notSm>>

\* lines 255-258: chunk, stack, return
SmRestore ==
  /\ sm_pc = "restore"
  /\ sm_out' = stack(chunk(sm_soft, Len(sm_dij)))
  /\ sm_pc' = "done"
  /\ UNCHANGED <<sm_dij, sm_flat, sm_soft, notSm>>

NextSoftmax == SmFlatten \/ SmApply \/ SmRestore

-----------------------------------------------------------------------------
(***************************************************************************)
(* Gaussian, GaussianSoftmax: src/script/model/kernels/general.py,         *)
(* lines 222-236 and 260-289                                               *)
(*                                                                         *)
(* sigma ** 2 is given in units of ln 2, so exp(-sqdist * var) is the      *)
(* exact fraction 1 / 2^(sqdist * var).  A softmax of such fractions is    *)
(* kept as the term exp(a) / (exp(r1) + ... + exp(rn)).                    *)
(***************************************************************************)

GaussKinds == {"Gaussian", "GaussianSoftmax"}
\* nodes per graph
GaNodes == {2, 3}
\* node coordinates
GaCoords == {0, 1}

\* ts.sqdist_(emb): pairwise squared Euclidean distances of the nodes
sqdist_(emb) ==
  [b \in 1..Len(emb) |-> [i \in 1..Len(emb[b]) |-> [j \in 1..Len(emb[b]) |->
     (emb[b][i] - emb[b][j]) * (emb[b][i] - emb[b][j])]]]

\* gaussian(sqdist, sigma), lines 222-226
gaussian(sqdist, var) ==
  [b \in 1..Len(sqdist) |-> [i \in 1..Len(sqdist[b]) |-> [j \in 1..Len(sqdist[b]) |->
     Rat(1, Pow2(sqdist[b][i][j] * var))]]]

\* ts.make_tensor_as / ts.variable_as in _delete_diag: the mask of the diagonal
make_tensor_as(nb_node) == [i \in 1..nb_node |-> [j \in 1..nb_node |-> i = j]]

\* _delete_diag(adj), lines 229-236
_delete_diag(adj) ==
  LET diag_mask == make_tensor_as(Len(adj[1])) IN
  [b \in 1..Len(adj) |-> [i \in 1..Len(adj[b]) |-> [j \in 1..Len(adj[b]) |->
     IF diag_mask[i][j] THEN Rat(0, 1) ELSE adj[b][i][j]]]]

\* nn.Softmax() on a 2-D input of fractions: the softmax of every row, as a term
softmax_term(m) ==
  [r \in 1..Len(m) |-> [k \in 1..Len(m[r]) |-> [exp |-> m[r][k], over |-> m[r]]]]

\* _apply_norm: Gaussian line 269, GaussianSoftmax lines 288-289 with _softmax
_apply_norm(kind, adj) ==
  IF kind = "GaussianSoftmax"
    THEN stack(chunk(softmax_term(cat(unbind(adj))), Len(adj)))
    ELSE adj

IdleGauss ==
  /\ ga_kind = "Gaussian"
  /\ ga_diag = TRUE
  /\ ga_layerwise = FALSE
  /\ ga_var = 1
  /\ ga_emb = <<>>
  /\ ga_pc = "idle"
  /\ ga_gauss = <<>>
  /\ ga_adj = <<>>
  /\ ga_saved = NoAdj

\* a kernel after __init__ (lines 262-267, 284-286) and the argument of forward
InitGauss ==
  /\ ga_kind \in GaussKinds
  /\ ga_diag \in BOOLEAN
  /\ ga_layerwise \in BOOLEAN
  /\ ga_var \in 0..MaxVar
  /\ \E batch \in 1..MaxGaBatch, n \in GaNodes : ga_emb \in [1..batch -> [1..n -> GaCoords]]
  /\ ga_pc = "gaussian"
  /\ ga_gauss = <<>>
  /\ ga_adj = <<>>
  /\ ga_saved = NoAdj

\* line 275: adj = gaussian(self.sqdist(emb), self.sigma)
GaGaussian ==
  /\ ga_pc = "gaussian"
  /\ ga_gauss' = gaussian(sqdist_(ga_emb), ga_var)
  /\ ga_adj' = gaussian(sqdist_(ga_emb), ga_var)
  /\ ga_pc' = "diag"
  /\ UNCHANGED <<ga_kind, ga_diag, ga_layerwise, ga_var, ga_emb, ga_saved, notGa>>

\* lines 276-277: if not self.diag: adj = _delete_diag(adj)
GaDeleteDiag ==
  /\ ga_pc = "diag"
  /\ ga_adj' = IF ~ga_diag THEN _delete_diag(ga_adj) ELSE ga_adj
  /\ ga_pc' = "norm"
  /\ UNCHANGED <<ga_kind, ga_diag, ga_layerwise, ga_var, ga_emb, ga_gauss, ga_saved, notGa>>

\* line 279: adj = self._apply_norm(adj)
GaApplyNorm ==
  /\ ga_pc = "norm"
  /\ ga_adj' = _apply_norm(ga_kind, ga_adj)
  /\ ga_pc' = "save"
  /\ UNCHANGED <<ga_kind, ga_diag, ga_layerwise, ga_var, ga_emb, ga_gauss, ga_saved, notGa>>

\* lines 280-281: self.save_adj(adj); return adj
GaSaveReturn ==
  /\ ga_pc = "save"
  /\ ga_saved' = IF ga_layerwise THEN ga_saved ELSE ga_adj
  /\ ga_pc' = "done"
  /\ UNCHANGED <<ga_kind, ga_diag, ga_layerwise, ga_var, ga_emb, ga_gauss, ga_adj, notGa>>

NextGauss == GaGaussian \/ GaDeleteDiag \/ GaApplyNorm \/ GaSaveReturn

-----------------------------------------------------------------------------
(***************************************************************************)
(* DirectedGaussian.forward: src/script/model/kernels/general.py,          *)
(* lines 54-64 and 119-132                                                 *)
(*                                                                         *)
(* An entry of the result is theta * g + (1 - theta) * w; it is kept as    *)
(* the pair of the position of g in the tensor self.gauss_ker returned and *)
(* the value w of the summed-weight term.                                  *)
(***************************************************************************)

\* nodes per graph
DgNodes == {2, 3}

\* previous adjacencies of one graph: every 0/1 matrix on two nodes, and on
\* more nodes the matrices whose first k columns are ones
DgAdjacencies(n) ==
  IF n = 2 THEN [1..n -> [1..n -> {0, 1}]]
           ELSE {[r \in 1..n |-> [c \in 1..n |-> IF c <= k THEN 1 ELSE 0]] : k \in 0..n}

\* get_summed_weights(adj_in), lines 54-64: per node the sum of its column
\* without the self edge, divided by nb_node - 1
get_summed_weights(adj) ==
  LET n == Len(adj) IN
  [c \in 1..n |-> Rat(SumInts([r \in 1..n |-> adj[r][c]]) - adj[c][c], n - 1)]

\* the graph whose adjacency iteration i of the loop (line 123) reads
SummedGraph(i) == 1

\* sum_weights.expand(batch, nb_node, nb_node) of a (batch, nb_node) tensor
\* (line 126): the tensor's first dimension is matched with the rows, so it has
\* to be 1 or nb_node
CanExpand(t, n) == Len(t) = 1 \/ Len(t) = n
expand(t, batch, n) ==
  [b \in 1..batch |-> [r \in 1..n |-> [c \in 1..n |-> t[IF Len(t) = 1 THEN 1 ELSE r][c]]]]

\* t.transpose(1, 2) (line 128)
transpose12(t) ==
  [b \in 1..Len(t) |-> [r \in 1..Len(t[b]) |-> [c \in 1..Len(t[b]) |-> t[b][c][r]]]]

IdleDirected ==
  /\ dg_adj_in = <<>>
  /\ dg_pc = "idle"
  /\ dg_i = 0
  /\ dg_sum = <<>>
  /\ dg_exc = "none"
  /\ dg_out = <<>>

\* a call forward(adj_in, emb_in, idx) on a batch of graphs of n nodes
InitDirected ==
  /\ \E batch \in 1..MaxDgBatch, n \in DgNodes : dg_adj_in \in [1..batch -> DgAdjacencies(n)]
  /\ dg_pc = "loop"
  /\ dg_i = 1
  /\ dg_sum = <<>>
  /\ dg_exc = "none"
  /\ dg_out = <<>>

\* lines 122-123: one iteration of the loop
DgSumWeights ==
  /\ dg_pc = "loop"
  /\ dg_i <= Len(dg_adj_in)
  /\ dg_sum' = Append(dg_sum, get_summed_weights(dg_adj_in[SummedGraph(dg_i)]))
  /\ dg_i' = dg_i + 1
  /\ dg_pc' = IF dg_i + 1 <= Len(dg_adj_in) THEN "loop" ELSE "expand"
  /\ UNCHANGED <<dg_adj_in, dg_exc, dg_out, notDg>>

\* lines 124-128: cat, expand, transpose
DgExpand ==
  /\ dg_pc = "expand"
  /\ LET n == Len(dg_adj_in[1]) IN
     IF CanExpand(dg_sum, n)
       THEN /\ dg_sum' = transpose12(expand(dg_sum, Len(dg_adj_in), n))
            /\ dg_pc' = "blend"
            /\ dg_exc' = dg_exc
       ELSE /\ dg_sum' = dg_sum
            /\ dg_pc' = "raised"
            /\ dg_exc' = "RuntimeError"
  /\ UNCHANGED <<dg_adj_in, dg_i, dg_out, notDg>>

\* lines 129-132: adj = self.gauss_ker(adj_in, emb_in); the blend; return adj
DgBlend ==
  /\ dg_pc = "blend"
  /\ dg_out' = [b \in 1..Len(dg_sum) |-> [r \in 1..Len(dg_sum[b]) |->
                  [c \in 1..Len(dg_sum[b]) |-> [gauss |-> <<b, r, c>>, weight |-> dg_sum[b][r][c]]]]]
  /\ dg_pc' = "done"
  /\ UNCHANGED <<dg_adj_in, dg_i, dg_sum, dg_exc, notDg>>

NextDirected == DgSumWeights \/ DgExpand \/ DgBlend

-----------------------------------------------------------------------------
(***************************************************************************)
(* MLPdirected.forward: src/script/model/kernels/general.py, lines 11-64   *)
(* and 178-201                                                             *)
(*                                                                         *)
(* The perceptron is applied to every row of the sample matrix on its own; *)
(* its score of a row is kept as the term [mlp |-> row], and the sigmoid   *)
(* of x as [sigmoid |-> x].                                                *)
(***************************************************************************)

\* nodes per graph
MlNodes == {2, 3}

\* previous adjacencies of one graph: the first k columns are ones
MlAdjacencies(n) ==
  {[r \in 1..n |-> [c \in 1..n |-> IF c <= k THEN 1 ELSE 0]] : k \in 0..n}
\* embeddings of one graph, shape (fmap, nodes)
MlEmbeddings(fmap, n) ==
  {[f \in 1..fmap |-> [node \in 1..n |-> (node * (f + s)) % 4]] : s \in 0..2}

\* t.transpose(0,1) of a matrix
transpose01(t) == [r \in 1..Len(t[1]) |-> [c \in 1..Len(t) |-> t[c][r]]]

\* t.repeat(a, b): t tiled a times along the rows and b times along the columns
repeat(t, a, b) ==
  [r \in 1..(a * Len(t)) |-> [c \in 1..(b * Len(t[1])) |->
     t[((r - 1) % Len(t)) + 1][((c - 1) % Len(t[1])) + 1]]]

\* t.resize(rows, cols): the elements of t in row-major order, laid out anew
resize(t, rows, cols) ==
  LET flat == Concat(t) IN
  [r \in 1..rows |-> [c \in 1..cols |-> flat[(r - 1) * cols + c]]]

\* torch.cat((a, b), 1): the rows of a continued by the rows of b
cat1(a, b) == [r \in 1..Len(a) |-> a[r] \o b[r]]

\* cartesian(tensor), lines 11-31
cartesian_swapped(tensor) ==
  LET n_repeats == Len(tensor)
      dim2 == Len(tensor[1])
      a == resize(repeat(tensor, 1, n_repeats), n_repeats * n_repeats, dim2)
      b == repeat(tensor, n_repeats, 1)
  IN cat1(b, a)
cartesian(tensor) ==
  LET n_repeats == Len(tensor)
      dim2 == Len(tensor[1])
      a == resize(repeat(tensor, 1, n_repeats), n_repeats * n_repeats, dim2)
      b == repeat(tensor, n_repeats, 1)
  IN cat1(a, b)

\* _get_adj(tensor, adj_size), lines 33-41
_get_adj(tensor, adj_size) == resize(tensor, adj_size, adj_size)

\* make_samples(emb_in, sum_weights, idx), lines 44-52
make_samples(emb_in, sum_weights) ==
  LET nb_node == Len(emb_in)
      sample == cartesian(emb_in)
      weights == repeat(resize(<<sum_weights>>, nb_node, 1), nb_node, 1)
  IN cat1(sample, weights)

\* lines 191-193: layer1, relu and layer2 on every row of the sample matrix
mlp(sample) == [r \in 1..Len(sample) |-> <<[mlp |-> sample[r]]>>]

\* functional.sigmoid on a batch of matrices
sigmoid(t) ==
  [b \in 1..Len(t) |-> [r \in 1..Len(t[b]) |-> [c \in 1..Len(t[b][r]) |->
     [sigmoid |-> t[b][r][c]]]]]

IdleMLP ==
  /\ ml_layerwise = FALSE
  /\ ml_adj_in = <<>>
  /\ ml_emb_in = <<>>
  /\ ml_pc = "idle"
  /\ ml_i = 0
  /\ ml_sample = <<>>
  /\ ml_samples = <<>>
  /\ ml_adj_list = <<>>
  /\ ml_out = <<>>
  /\ ml_saved = NoAdj

\* a kernel after __init__ (lines 172-176) and a call forward(adj_in, emb_in, layer)
InitMLP ==
  /\ ml_layerwise \in BOOLEAN
  /\ \E batch \in 1..MaxMlBatch, n \in MlNodes, fmap \in 1..MaxMlFmap :
       /\ ml_adj_in \in [1..batch -> MlAdjacencies(n)]
       /\ ml_emb_in \in [1..batch -> MlEmbeddings(fmap, n)]
  /\ ml_pc = "sample"
  /\ ml_i = 1
  /\ ml_sample = <<>>
  /\ ml_samples = <<>>
  /\ ml_adj_list = <<>>
  /\ ml_out = <<>>
  /\ ml_saved = NoAdj

\* lines 187-188: sum_weights and sample of graph i
MlSample ==
  /\ ml_pc = "sample"
  /\ LET sample == make_samples(transpose01(ml_emb_in[ml_i]),
                                get_summed_weights(ml_adj_in[ml_i]))
     IN /\ ml_sample' = sample
        /\ ml_samples' = Append(ml_samples, sample)
  /\ ml_pc' = "score"
  /\ UNCHANGED <<ml_layerwise, ml_adj_in, ml_emb_in, ml_i, ml_adj_list, ml_out,
                 ml_saved, notMl>>

\* lines 191-196: the perceptron on the sample, _get_adj, adj_list.append
MlScore ==
  /\ ml_pc = "score"
  /\ ml_adj_list' = Append(ml_adj_list, _get_adj(mlp(ml_sample), Len(ml_adj_in[ml_i])))
  /\ ml_i' = ml_i + 1
  /\ ml_pc' = IF ml_i + 1 <= Len(ml_adj_in) THEN "sample" ELSE "finish"
  /\ UNCHANGED <<ml_layerwise, ml_adj_in, ml_emb_in, ml_sample, ml_samples, ml_out,
                 ml_saved, notMl>>

\* lines 198-201: cat, sigmoid, save_adj, return
MlFinish ==
  /\ ml_pc = "finish"
  /\ ml_out' = sigmoid(ml_adj_list)
  /\ ml_saved' = IF ml_layerwise THEN ml_saved ELSE sigmoid(ml_adj_list)
  /\ ml_pc' = "done"
  /\ UNCHANGED <<ml_layerwise, ml_adj_in, ml_emb_in, ml_i, ml_sample, ml_samples,
                 ml_adj_list, notMl>>

NextMLP == MlSample \/ MlScore \/ MlFinish

-----------------------------------------------------------------------------
(* Specifications *)

InitSpecKernel == InitKernel /\ IdleGNN /\ IdleStats /\ IdleConv /\ IdleMain /\ IdleSoftmax /\ IdleGauss /\ IdleDirected /\ IdleMLP
SpecKernel == InitSpecKernel /\ [][NextKernel]_vars

InitSpecGNN == InitGNN /\ IdleKernel /\ IdleStats /\ IdleConv /\ IdleMain /\ IdleSoftmax /\ IdleGauss /\ IdleDirected /\ IdleMLP
SpecGNN == InitSpecGNN /\ [][NextGNN]_vars

InitSpecStats == InitStats /\ IdleKernel /\ IdleGNN /\ IdleConv /\ IdleMain /\ IdleSoftmax /\ IdleGauss /\ IdleDirected /\ IdleMLP
SpecStats == InitSpecStats /\ [][NextStats]_vars

InitSpecConv == InitConv /\ IdleKernel /\ IdleGNN /\ IdleStats /\ IdleMain /\ IdleSoftmax /\ IdleGauss /\ IdleDirected /\ IdleMLP
SpecConv == InitSpecConv /\ [][NextConv]_vars

InitSpecMain == InitMain /\ IdleKernel /\ IdleGNN /\ IdleStats /\ IdleConv /\ IdleSoftmax /\ IdleGauss /\ IdleDirected /\ IdleMLP
SpecMain == InitSpecMain /\ [][NextMain]_vars

InitSpecSoftmax == InitSoftmax /\ IdleKernel /\ IdleGNN /\ IdleStats /\ IdleConv /\ IdleMain /\ IdleGauss /\ IdleDirected /\ IdleMLP
SpecSoftmax == InitSpecSoftmax /\ [][NextSoftmax]_vars

InitSpecGauss == InitGauss /\ IdleKernel /\ IdleGNN /\ IdleStats /\ IdleConv /\ IdleMain /\ IdleSoftmax /\ IdleDirected /\ IdleMLP
SpecGauss == InitSpecGauss /\ [][NextGauss]_vars

InitSpecDirected == InitDirected /\ IdleKernel /\ IdleGNN /\ IdleStats /\ IdleConv /\ IdleMain /\ IdleSoftmax /\ IdleGauss /\ IdleMLP
SpecDirected == InitSpecDirected /\ [][NextDirected]_vars

InitSpecMLP == InitMLP /\ IdleKernel /\ IdleGNN /\ IdleStats /\ IdleConv /\ IdleMain /\ IdleSoftmax /\ IdleGauss /\ IdleDirected
SpecMLP == InitSpecMLP /\ [][NextMLP]_vars

-----------------------------------------------------------------------------
(* Claims about the adjacency kernels *)

\* C1: a kernel built with layerwise=False answers update() with the adjacency
\* most recently handed to save_adj and does not run forward; a kernel built
\* with layerwise=True never stores an adjacency (adj_matrix stays unset) and
\* its update() runs forward and returns forward's result for the same inputs.
C1_UpdateContract ==
  /\ (~k_layerwise /\ k_op = "update") =>
        /\ ~k_ranForward
        /\ k_lastSaveArg # NoAdj => k_ret = k_lastSaveArg
  /\ k_layerwise =>
        /\ adj_matrix = NoAdj
        /\ k_op = "update" =>
              /\ k_ranForward
              /\ k_ret = ForwardValue(k_kind, k_args[1], k_args[2])

\* a caching kernel has answered update() with the adjacency its forward stored
C1_Witness ==
  /\ ~k_layerwise
  /\ k_op = "update"
  /\ k_ret = k_lastSaveArg
  /\ k_ret.ker = k_kind

\* C8: for every kernel variant built with layerwise=False, after a forward
\* call the cached adjacency is the adjacency this forward call returned.
C8_ForwardCaches ==
  (~k_layerwise /\ k_op = "forward") => adj_matrix = k_ret

-----------------------------------------------------------------------------
(* Claims about GNN.forward *)

\* C2: the layers are called in index order 0..L-1; layer 0 receives the input
\* embedding and an all-ones (batch, nodes, nodes) adjacency and every later
\* layer exactly the pair its predecessor returned; plot_graph is called once
\* per layer, right after it, with graph 0 of that layer's outputs and the
\* layer's index, and never when plotting is None; the readout is called
\* exactly once, after the last layer, on the last layer's embedding.
C2_Sequential ==
  LET n == Len(g_ran) IN
  /\ n <= g_L
  /\ g_ran = [k \in 1..n |-> k - 1]
  /\ n = 1 => g_layerIn = <<g_input, Ones(BatchOf(g_input), PtsOf(g_input))>>
  /\ n >= 2 => g_layerIn = g_prevOut
  /\ ~g_plotting => g_plots = 0 /\ g_pc # "plot"
  /\ g_plotting => g_plots = (IF g_pc = "plot" THEN n - 1 ELSE n)
  /\ (g_plots > 0 /\ g_pc # "plot") =>
        g_lastPlot = <<g_layerOut[1][1], g_layerOut[2][1], n - 1>>
  /\ g_readouts = (IF g_pc = "done" THEN 1 ELSE 0)
  /\ g_pc \in {"readout", "done"} => n = g_L
  /\ g_pc = "done" =>
        g_readoutArg = (IF g_L = 0 THEN g_input ELSE g_layerOut[1])

\* a forward call over at least two layers, with a plotting hook, has returned,
\* and its last layer was given an adjacency that is not the dummy all-ones one
C2_Witness ==
  /\ g_pc = "done"
  /\ g_L >= 2
  /\ g_plotting
  /\ g_plots = g_L
  /\ g_readouts = 1
  /\ g_layerIn = g_prevOut
  /\ g_layerIn[2] # Ones(BatchOf(g_input), PtsOf(g_input))
  /\ g_layerOut[1] # g_layerIn[1]

-----------------------------------------------------------------------------
(* Claims about Statistics *)

\* the number of windows of a mode completed so far: one per nbdisplay updates
WindowsDone(mode) == s_updates[mode] \div nbdisplay

C4_WindowInvariant ==
  /\ \A m \in Modes : nb_batch_in_buffer[m] = s_updates[m] % nbdisplay
  /\ s_op = "update" => nb_batch_in_buffer[s_mode] \in 0..(nbdisplay - 1)
  /\ (s_op = "update" /\ s_updates[s_mode] % nbdisplay = 0) =>
        /\ nb_batch_in_buffer[s_mode] = 0
        /\ \A k \in BufferKeys : buffer[s_mode][k] = 0

\* the update that has just returned completed a window of three test batches
\* while a train window is still open with non-zero sums
C4_Witness ==
  /\ s_op = "update"
  /\ s_mode = "test"
  /\ nbdisplay = 3
  /\ s_updates["test"] = 3
  /\ \A k \in BufferKeys : buffer["test"][k] = 0
  /\ nb_batch_in_buffer["train"] = 1
  /\ buffer["train"]["nb_ones"] > 0

\* C12: at every window completion the std0 and std1 produced are never
\* negative: the variance is clamped at 0 before the square root, so the square
\* root never fails even when the subtraction rounds below 0; and a label count
\* of 0 is never divided by: the sums of that label are left as they are (0).
C12_StdNeverNegative ==
  s_window.mode # "none" =>
    /\ \A st \in {"std0", "std1"} :
          /\ s_window[st].num >= 0
          /\ s_window[st].den > 0
    /\ ~s_window.ones => s_window.std1 = Rat(0, 1)
    /\ ~s_window.zero => s_window.std0 = Rat(0, 1)
    /\ s_window.mode = "train" =>
          /\ files["std0"][Len(files["std0"])] = s_window.std0
          /\ files["std1"][Len(files["std1"])] = s_window.std1

\* a test window of two or more batches has completed with ones only, all with
\* the same output: the exact variance is 0, the case where the subtraction can
\* round below 0, and there is no zero label to divide by
C12_Witness ==
  /\ s_window.mode = "test"
  /\ nbdisplay >= 2
  /\ s_window.ones
  /\ ~s_window.zero
  /\ s_window.std1 = [num |-> 0, den |-> 1, root |-> TRUE]
  /\ s_window.std0 = Rat(0, 1)

\* C15: every nbstep-th update call in train mode appends to loss_step.csv the
\* mean of the step losses of the nbstep train updates of that step window and
\* then resets steploss and steps to 0; update calls in test mode never append
\* to loss_step.csv.
C15_StepLossMean ==
  /\ Len(files["loss_step"]) = s_updates["train"] \div nbstep
  /\ (s_op = "update" /\ s_mode = "train" /\ s_updates["train"] % nbstep = 0) =>
        /\ files["loss_step"][Len(files["loss_step"])] = Rat(s_stepsum, nbstep)
        /\ steploss = 0
        /\ steps = 0

\* C16: after flush() the whole test-mode state equals its freshly initialised
\* state: every test running sum, the test batch counter and
\* nb_events_seen['test'] are zero.
C16_FlushResetsTest ==
  s_op = "flush" =>
    /\ \A k \in BufferKeys : buffer["test"][k] = 0
    /\ nb_batch_in_buffer["test"] = 0
    /\ nb_events_seen["test"] = 0

\* a step of update('test', ...) or flush() changes no train-mode state
TestOpsKeepTrain ==
  (s_op' = "flush" \/ (s_op' = "update" /\ s_mode' = "test")) =>
    /\ buffer'["train"] = buffer["train"]
    /\ nb_batch_in_buffer'["train"] = nb_batch_in_buffer["train"]
    /\ nb_events_seen'["train"] = nb_events_seen["train"]
    /\ steploss' = steploss
    /\ steps' = steps
    /\ files' = files
\* a step of update('train', ...) changes no test-mode state
TrainUpdateKeepsTest ==
  (s_op' = "update" /\ s_mode' = "train") =>
    /\ buffer'["test"] = buffer["test"]
    /\ nb_batch_in_buffer'["test"] = nb_batch_in_buffer["test"]
    /\ nb_events_seen'["test"] = nb_events_seen["test"]

\* C17: update('test', ...) and flush() leave the train running sums, the train
\* batch counter, nb_events_seen['train'], steploss, steps and every file
\* unchanged; update('train', ...) leaves the test running sums, the test batch
\* counter and nb_events_seen['test'] unchanged.
C17_ModeFrames == [][TestOpsKeepTrain /\ TrainUpdateKeepsTest]_vars

-----------------------------------------------------------------------------
(* Claims about the convolution layers *)

\* the positions inside get_convolution_layer and the constructors
ConstructionPcs == {"call", "res_init", "simple_init", "mk_lin", "mk_nlin"}
\* the configurations for which a layer is promised
ValidConvConfig ==
  /\ c_conv_type \in {"ResGNN", "Simple"}
  /\ c_conv_type = "ResGNN" => c_out_fm % 2 = 0

\* C5: a convolution layer is returned if and only if conv_type is 'ResGNN' or
\* 'Simple' and, for 'ResGNN', the output feature-map count is even; any other
\* conv_type raises (Exception) and 'ResGNN' with an odd count raises
\* ValueError, both during construction, before any sub-convolution is created
\* and without a layer being returned.
C5_ConstructionErrors ==
  /\ c_layer # "none" => ValidConvConfig
  /\ c_subconvs > 0 => ValidConvConfig
  /\ c_pc \notin ConstructionPcs =>
        /\ c_layer # "none" <=> ValidConvConfig
        /\ c_conv_type \notin {"ResGNN", "Simple"} =>
              c_exc = "Exception" /\ c_subconvs = 0 /\ c_pc = "raised"
        /\ (c_conv_type = "ResGNN" /\ c_out_fm % 2 # 0) =>
              c_exc = "ValueError" /\ c_subconvs = 0 /\ c_pc = "raised"

\* the factory was asked for a residual layer with an odd number of output
\* feature maps and the constructor has raised
C5_Witness ==
  /\ c_impl = "gnn"
  /\ c_conv_type = "ResGNN"
  /\ c_out_fm = 3
  /\ c_pc = "raised"
  /\ c_exc = "ValueError"
  /\ c_subconvs = 0
  /\ c_layer = "none"

\* C6: ResGOpConv.forward never returns an embedding that holds a NaN: linear
\* has passed its NaN check before nlinear is computed, nlinear has passed its
\* check before relu and the concatenation, and a concatenation that holds a
\* NaN ends in the assertion failure instead of a return.
C6_NoNanReturned ==
  /\ c_pc = "returned" => ~HasNan(c_out[1]) /\ ~HasNan(c_out[2])
  /\ c_nlinear # <<>> => "linear" \in c_checked /\ ~HasNan(c_linear)
  /\ (c_pc \in {"cat", "returned"} \/ c_out # <<>>) => "nlinear" \in c_checked
  /\ (c_out # <<>> /\ HasNan(c_out[1] \o c_out[2])) =>
        c_pc = "raised" /\ c_exc = "AssertionError"

\* linear passed its check, nlinear held a NaN and the call was aborted
C6_Witness ==
  /\ c_pc = "raised"
  /\ c_exc = "NanAbort"
  /\ "linear" \in c_checked
  /\ c_linear # <<>>
  /\ HasNan(c_nlinear)
  /\ c_out = <<>>

\* affine(concat(identity, masked mean)) computed by hand for one feature map:
\* out[k] = w1 * emb[k] + w2 * mean(emb[1..nb]) + b
HandAffine(p, emb, nb) ==
  LET mean == DivInt(SumScalars(SubSeq(emb, 1, nb)), nb) IN
  [k \in 1..Len(emb) |->
     Add(Add(Mul(Num(p.w[1]), emb[k]), Mul(Num(p.w[2]), mean)), p.b)]

\* C7: in every GraphOpConv implementation, forward called with ops=None
\* completes and returns the affine transform of the concatenation of the
\* unmodified embedding and the masked per-graph mean broadcast to every node.
C7_NoOpsForward ==
  (c_emb_in # <<>> /\ c_ops = NoOps /\ c_pc # "lin") =>
     /\ c_exc # "NameError"
     /\ c_linear = HandAffine(c_lin, c_emb_in, c_nb_nodes)

-----------------------------------------------------------------------------
(* Claims about main() *)

\* C9: for mode 'prepare_data', 'weight_average' or 'setdefault' main raises
\* NotImplementedError, and for a mode outside the seven it names it raises an
\* exception; in these cases no model is retrieved, trained or tested and main
\* never returns normally.
C9_FailsLoudly ==
  LET unimplemented == m_mode \in {"prepare_data", "weight_average", "setdefault"}
      unknown == m_mode \notin KnownModes
  IN
  /\ (unimplemented \/ unknown) =>
        /\ m_models = 0
        /\ m_epochs_done = 0
        /\ m_pc \in {"start", "dispatch", "raised"}
  /\ (unimplemented /\ m_pc \notin {"start", "dispatch"}) =>
        m_pc = "raised" /\ m_exc = "NotImplementedError"
  /\ (unknown /\ m_pc \notin {"start", "dispatch"}) =>
        m_pc = "raised" /\ m_exc = "Exception"

\* main was run with mode 'setdefault' and has raised NotImplementedError
C9_Witness ==
  /\ m_mode = "setdefault"
  /\ m_stdout
  /\ m_pc = "raised"
  /\ m_exc = "NotImplementedError"
  /\ m_models = 0

-----------------------------------------------------------------------------
(* Claims about _softmax *)

\* a + b for two fractions
RatAdd(a, b) == Rat(a.num * b.den + b.num * a.den, a.den * b.den)
RECURSIVE RatSum(_)
RatSum(t) == IF t = <<>> THEN Rat(0, 1) ELSE RatAdd(t[1], RatSum(Tail(t)))

\* the softmax of one row, from its definition
RowSoftmax(row) ==
  [k \in 1..Len(row) |-> Rat(Pow2(row[k]), SumInts([q \in 1..Len(row) |-> Pow2(row[q])]))]

\* C10: _softmax flattens the (batch, nodes, nodes) tensor to (batch*nodes,
\* nodes) with row i of graph b at row (b-1)*nodes + i, applies the row-wise
\* softmax and restores the layout (chunking the flat tensor back gives the
\* original tensor), so that output[b][i] is the softmax of input[b][i] alone;
\* hence every row of every graph sums to 1.
C10_RowwisePerGraph ==
  LET batch == Len(sm_dij)
      n == Len(sm_dij[1])
  IN
  /\ sm_pc \in {"softmax", "restore", "done"} =>
        /\ Len(sm_flat) = batch * n
        /\ \A b \in 1..batch, i \in 1..n : sm_flat[(b - 1) * n + i] = sm_dij[b][i]
        /\ chunk(sm_flat, batch) = sm_dij
  /\ sm_pc = "done" =>
        /\ Len(sm_out) = batch
        /\ \A b \in 1..batch :
              /\ Len(sm_out[b]) = n
              /\ \A i \in 1..n :
                    /\ sm_out[b][i] = RowSoftmax(sm_dij[b][i])
                    /\ RatSum(sm_out[b][i]) = Rat(1, 1)

\* _softmax has returned for a batch of two graphs whose adjacencies differ
\* and whose rows are not uniform
C10_Witness ==
  /\ sm_pc = "done"
  /\ Len(sm_dij) = 2
  /\ sm_dij[1] # sm_dij[2]
  /\ sm_dij[2][1][1] # sm_dij[2][1][2]
  /\ sm_out[1][1] # sm_out[2][1]

-----------------------------------------------------------------------------
(* Claims about the Gaussian kernels *)

\* an entry is a fraction n/d or a softmax term; exp is positive, so a softmax
\* term is positive, and it is at most 1 when its numerator is one of the terms
\* of its denominator
IsTerm(e) == "exp" \in DOMAIN e
InUnitInterval(e) ==
  IF IsTerm(e) THEN \E q \in 1..Len(e.over) : e.over[q] = e.exp
               ELSE 0 <= e.num /\ e.num <= e.den
IsZero(e) == IF IsTerm(e) THEN FALSE ELSE e.num = 0

\* C11: every entry of the adjacency a Gaussian kernel's forward returns is in
\* [0,1]; with diag=False every diagonal entry of every graph is exactly 0 and
\* every off-diagonal entry is the value gaussian() gave it.
C11_UnitRangeZeroDiag ==
  ga_pc = "done" =>
    \A b \in 1..Len(ga_adj) : \A i, j \in 1..Len(ga_adj[b]) :
      /\ InUnitInterval(ga_adj[b][i][j])
      /\ ~ga_diag =>
           IF i = j THEN IsZero(ga_adj[b][i][j])
                    ELSE ga_adj[b][i][j] = ga_gauss[b][i][j]

-----------------------------------------------------------------------------
(* Claims about DirectedGaussian *)

\* C13: in the adjacency DirectedGaussian.forward returns, the summed-incoming-
\* weight term of every entry of graph i is computed from graph i's own previous
\* adjacency adj_in[i] (per node: the column sum minus the self edge, divided by
\* nodes - 1), and every entry of a row carries the same value, that of the
\* row's node.
C13_OwnSummedWeights ==
  dg_pc = "done" =>
    \A i \in 1..Len(dg_out) : \A r, c \in 1..Len(dg_out[i]) :
      dg_out[i][r][c].weight = get_summed_weights(dg_adj_in[i])[r]

-----------------------------------------------------------------------------
(* Claims about MLPdirected *)

\* the embedding of node j of graph i
NodeEmbedding(i, j) == [f \in 1..Len(ml_emb_in[i]) |-> ml_emb_in[i][f][j]]
\* (embedding of node j, embedding of node k, summed weight of node k)
PairRow(i, j, k) ==
  NodeEmbedding(i, j) \o NodeEmbedding(i, k) \o <<get_summed_weights(ml_adj_in[i])[k]>>

\* C14: for every graph i and every ordered node pair (j,k) of its n nodes, row
\* j*n+k (counting from 0) of the sample matrix is (embedding of node j,
\* embedding of node k, summed weight of node k), and entry [j][k] of the
\* returned adjacency of the graph is the sigmoid of the score of that row.
C14_PairOrderAgrees ==
  /\ \A i \in 1..Len(ml_samples) :
       LET n == Len(ml_adj_in[i]) IN
       /\ Len(ml_samples[i]) = n * n
       /\ \A j, k \in 1..n : ml_samples[i][(j - 1) * n + k] = PairRow(i, j, k)
  /\ ml_pc = "done" =>
       /\ Len(ml_out) = Len(ml_adj_in)
       /\ \A i \in 1..Len(ml_out) :
            LET n == Len(ml_adj_in[i]) IN
            /\ Len(ml_out[i]) = n
            /\ \A j, k \in 1..n :
                 ml_out[i][j][k] = [sigmoid |-> [mlp |-> PairRow(i, j, k)]]

\* forward has returned for a batch of two graphs of three nodes with two
\* feature maps, whose nodes have pairwise different embeddings and not all the
\* same summed weight
C14_Witness ==
  /\ ml_pc = "done"
  /\ Len(ml_adj_in) = 2
  /\ Len(ml_adj_in[2]) = 3
  /\ Len(ml_emb_in[2]) = 2
  /\ \A j, k \in 1..3 : j # k => NodeEmbedding(2, j) # NodeEmbedding(2, k)
  /\ get_summed_weights(ml_adj_in[2])[1] # get_summed_weights(ml_adj_in[2])[3]
  /\ ml_out[2][1][3] # ml_out[2][3][1]

=============================================================================
